---- MODULE Spec2Model ----
(***************************************************************************)
(* globalClipboard server (server.js): the uploads table, the uploads/     *)
(* directory, the request handlers and the cleanup job, as a state machine. *)
(* Every database call and every fs.unlink is asynchronous in the source:  *)
(* a handler is split at each callback, and the clock may advance and      *)
(* other handlers may run between the two halves.                          *)
(***************************************************************************)
EXTENDS Integers, Sequences, FiniteSets, TLC

(* ---------------------------------------------------------------- bounds *)

\* Rows inserted (uuidv4() calls of the upload handler).
MaxItems == 2
\* Files stored (uuidv4() calls of multer's filename).
MaxFiles == 1
\* Files stored in the runs of uploads, deletes and cleanup runs alone.
MaxBlobs == 2
\* The clock starts at 0 and then takes the instants k*60000 + d,
\* 1 <= k <= MaxMinutes, d <= MaxSkew.
MaxMinutes == 1
MaxSkew == 1
\* Requests and cleanup runs that may be between their first callback and
\* their last at the same time.
MaxInFlight == 2

(* ----------------------------------------------------- program constants *)

MsPerMinute == 60000
DefaultExpiry == 60
MinExpiry == 1
MaxExpiry == 10080

API_KEY == "default-insecure-key"

(* ------------------------------------------------------------ JS values  *)

\* A request field that is absent: JS undefined.  Strings are sequences of
\* one-character strings, so this one-element sequence is none of them.
Undefined == <<"undefined">>

\* A parseInt result: a number, or JS NaN when the string has no leading digits.
NaN == [nan |-> TRUE, val |-> 0]
Num(v) == [nan |-> FALSE, val |-> v]

\* Every string taken for truthy.
TruthyAlways(s) == TRUE

\* JS truthiness of a string-or-undefined value.
Truthy(s) == s # Undefined /\ s # <<>>

Digits == {"0", "1", "2", "3", "4", "5", "6", "7", "8", "9"}
DigitChar == <<"0", "1", "2", "3", "4", "5", "6", "7", "8", "9">>

DigitVal(c) ==
    CASE c = "0" -> 0 [] c = "1" -> 1 [] c = "2" -> 2 [] c = "3" -> 3
      [] c = "4" -> 4 [] c = "5" -> 5 [] c = "6" -> 6 [] c = "7" -> 7
      [] c = "8" -> 8 [] c = "9" -> 9

\* Value of the longest prefix of digits of s, acc being the value read so
\* far; seen tells whether a digit was read.
RECURSIVE ReadDigits(_, _, _)
ReadDigits(s, acc, seen) ==
    IF s # <<>> /\ Head(s) \in Digits
    THEN ReadDigits(Tail(s), acc * 10 + DigitVal(Head(s)), TRUE)
    ELSE IF seen THEN Num(acc) ELSE NaN

RECURSIVE SkipSpace(_)
SkipSpace(s) == IF s # <<>> /\ Head(s) = " " THEN SkipSpace(Tail(s)) ELSE s

\* parseInt(s): leading blanks, an optional sign, then decimal digits up to
\* the first other character; NaN when there is no digit.
ParseInt(s) ==
    LET t == SkipSpace(s) IN
    IF t # <<>> /\ Head(t) = "-"
    THEN LET v == ReadDigits(Tail(t), 0, FALSE) IN IF v.nan THEN NaN ELSE Num(-v.val)
    ELSE IF t # <<>> /\ Head(t) = "+"
    THEN ReadDigits(Tail(t), 0, FALSE)
    ELSE ReadDigits(t, 0, FALSE)

\* parseInt(expiry) || 60: NaN and 0 are falsy.
ExpiryOrDefault(expiry) ==
    LET v == ParseInt(expiry) IN
    IF v.nan \/ v.val = 0 THEN DefaultExpiry ELSE v.val

\* No lower limit on the minutes.
ClampLowNone(m) == m

\* The two range checks on expiryMinutes.
ClampLow(m) == IF m < MinExpiry THEN MinExpiry ELSE m
ClampHigh(m) == IF m > MaxExpiry THEN MaxExpiry ELSE m

ExpiryMinutes(expiry) == ClampHigh(ClampLow(ExpiryOrDefault(expiry)))

ExpiryTime(createdAt, expiry) == createdAt + ExpiryMinutes(expiry) * MsPerMinute

\* username || 'web client', cut to its first 50 characters.
MaxUsername == 50
WebClient == <<"w", "e", "b", " ", "c", "l", "i", "e", "n", "t">>

Substring(s, from, to) == SubSeq(s, from + 1, IF to > Len(s) THEN Len(s) ELSE to)

UsernameOrDefault(username) == IF Truthy(username) THEN username ELSE WebClient

\* The username stored without the cut.
UploaderNameUncut(username) == UsernameOrDefault(username)

UploaderName(username) ==
    LET uploaderName == UsernameOrDefault(username) IN
    IF Len(uploaderName) > MaxUsername
    THEN Substring(uploaderName, 0, MaxUsername)
    ELSE uploaderName

\* null, and file.originalname of the files clients send.
Null == <<"null">>
OriginalName == <<"a", ".", "t", "x", "t">>

(* ------------------------------------------------------------- inputs    *)

\* The expiry fields a client sends: absent, zero, in range, negative, above
\* the maximum, digits followed by other text, no digit at all.
ExpiryInputs ==
    { Undefined, <<"0">>, <<"1">>, <<"-", "5">>, <<"1", "0", "0", "8", "1">>, <<"2", "x">>,
      <<"x">> }

\* The expiry fields sent while other requests are in flight.
FewExpiryInputs == { <<"1">> }

\* A username of n characters, each one the last digit of its position.
Label(n) == [i \in 1..n |-> DigitChar[(i % 10) + 1]]

\* The lengths of the usernames clients send: empty, short, at the limit,
\* one above it, and above it.
LabelLengths == {0, 3, MaxUsername, MaxUsername + 1, MaxUsername + 30}

\* The username fields a client sends.
Usernames == { Undefined } \cup { Label(n) : n \in LabelLengths }

\* The username field sent where the username is not looked at.
FewUsernames == { Undefined }

\* The text fields a client sends.
TextInputs == { Undefined, <<>>, <<"h", "i">> }

\* Credentials of a request: x-api-key header, api_key query parameter,
\* auth_token cookie.
Creds ==
    { <<<<API_KEY>>, Undefined, Undefined>>,
      <<Undefined, Undefined, Undefined>>,
      <<<<"wrong">>, Undefined, <<API_KEY>>>> }

\* req.headers['x-api-key'] || req.query.api_key || req.cookies.auth_token
\* What one channel may carry: nothing, the empty string, another string,
\* the key.
ChannelValues == { Undefined, <<>>, <<"wrong">>, <<API_KEY>> }

\* Every combination of the three channels.
AllCreds == ChannelValues \X ChannelValues \X ChannelValues

\* A request that carries no credentials.
NoCred == <<Undefined, Undefined, Undefined>>

\* The credentials of a client that holds the key.
KeyHolders == { <<<<API_KEY>>, Undefined, Undefined>> }

\* The channels read in the opposite order.
ProvidedKeyCookieFirst(cred) ==
    IF Truthy(cred[3]) THEN cred[3]
    ELSE IF Truthy(cred[2]) THEN cred[2]
    ELSE cred[1]

\* req.headers['x-api-key'] || req.query.api_key || req.cookies.auth_token
ProvidedKey(cred) ==
    IF Truthy(cred[1]) THEN cred[1]
    ELSE IF Truthy(cred[2]) THEN cred[2]
    ELSE cred[3]

\* authenticateParams: next() iff this holds, 401 otherwise.
Authenticated(cred) ==
    Truthy(ProvidedKey(cred)) /\ ProvidedKey(cred) = <<API_KEY>>

\* The values Date.now() takes.
Instants == {0} \cup { k * MsPerMinute + d : k \in 1..MaxMinutes, d \in 0..MaxSkew }

DelSlots == {1, 2}
Sweepers == {"cron", "api"}

(* --------------------------------------------------------------- state   *)

VARIABLES
    now,        \* Date.now()
    uploads,    \* the rows of table uploads
    files,      \* the paths present in uploads/
    nextId,     \* uuidv4() calls of the upload handler so far
    nextFile,   \* uuidv4() calls of multer's filename so far
    unlinks,    \* paths with an fs.unlink in flight
    up,         \* the POST /api/upload request
    del,        \* the DELETE /api/delete/:id requests
    sweep,      \* the performCleanup runs
    lst,        \* the GET /api/list request
    dl,         \* the GET /api/download/:id request
    event,      \* what the last step replied or logged, if anything
    inserted,   \* history: every row ever inserted
    attempted,  \* history: every path fs.unlink was called on
    okDeletes   \* history: per id, the 'Item deleted' replies sent

vars == <<now, uploads, files, nextId, nextFile, unlinks, up, del, sweep, lst, dl, event,
          inserted, attempted, okDeletes>>

NoRow ==
    [id |-> 0, type |-> "none", content |-> <<>>, expiry |-> 0, created_at |-> 0,
     filename |-> Null, username |-> <<>>]

\* The path multer stores a file under: uploads/<uuid>-<originalname>.
Path(u) == <<"uploads/", ToString(u)>>

\* A request or run that is not in flight.  pc is the callback it waits for.
\* race is history: the delete began while a cleanup run was about to remove
\* its row.  after is history: the ids whose upload had replied when the
\* list request was made.  cred is history: the credentials the request
\* came with.
IdleUp ==
    [pc |-> "idle", row |-> NoRow, expiry |-> Undefined, username |-> Undefined,
     cred |-> NoCred]
IdleDel == [pc |-> "idle", id |-> 0, row |-> NoRow, race |-> FALSE, cred |-> NoCred]
IdleSweep == [pc |-> "idle", now |-> 0, cred |-> NoCred]
IdleList == [pc |-> "idle", now |-> 0, after |-> {}, cred |-> NoCred]
IdleDl == [pc |-> "idle", id |-> 0, now |-> 0]

\* A reply (op, status and what it carries) or the end of a cleanup run (op
\* "sweep"; log is what the run logged, n is this.changes).  gone is the rows
\* the step removed from the table.
NoEvent ==
    [op |-> "none", status |-> 0, id |-> 0, now |-> 0, row |-> NoRow, rows |-> <<>>,
     gone |-> {}, log |-> "", n |-> 0, expiry |-> Undefined, race |-> FALSE,
     after |-> {}, username |-> Undefined, cred |-> NoCred]

Reply(op, status) == [NoEvent EXCEPT !.op = op, !.status = status]

\* The reply of authenticateParams to a request it turns down.
Unauthorized(op, cred) == [Reply(op, 401) EXCEPT !.cred = cred]

Init ==
    /\ now = 0
    /\ uploads = {}
    /\ files = {}
    /\ nextId = 0
    /\ nextFile = 0
    /\ unlinks = {}
    /\ up = IdleUp
    /\ del = [s \in DelSlots |-> IdleDel]
    /\ sweep = [w \in Sweepers |-> IdleSweep]
    /\ lst = IdleList
    /\ dl = IdleDl
    /\ event = NoEvent
    /\ inserted = {}
    /\ attempted = {}
    /\ okDeletes = [id \in 1..MaxItems |-> 0]

\* The requests and runs in flight.
InFlight ==
    (IF up.pc # "idle" THEN 1 ELSE 0)
    + Cardinality({ s \in DelSlots : del[s].pc # "idle" })
    + Cardinality({ w \in Sweepers : sweep[w].pc # "idle" })
    + (IF lst.pc # "idle" THEN 1 ELSE 0)
    + (IF dl.pc # "idle" THEN 1 ELSE 0)

(* ---------------------------------------------------------------- clock  *)

Tick ==
    /\ \E t \in Instants : t > now /\ now' = t
    /\ event' = NoEvent
    /\ UNCHANGED <<uploads, files, nextId, nextFile, unlinks, up, del, sweep, lst, dl,
                   inserted, attempted, okDeletes>>

(* ------------------------------------------------------------ fs.unlink  *)

\* fs.unlink(path, cb) is called: the removal happens later.
IssueUnlinks(paths) ==
    /\ unlinks' = unlinks \cup paths
    /\ attempted' = attempted \cup paths

\* An fs.unlink completion whose error ends the delete requests and cleanup
\* runs in flight.
FsUnlinkDoneAborts ==
    /\ \E p \in unlinks :
        /\ unlinks' = unlinks \ {p}
        /\ \E err \in BOOLEAN :
            /\ files' = IF err \/ p \notin files THEN files ELSE files \ {p}
            /\ del' = IF err THEN [s \in DelSlots |-> IdleDel] ELSE del
            /\ sweep' = IF err THEN [w \in Sweepers |-> IdleSweep] ELSE sweep
    /\ event' = NoEvent
    /\ UNCHANGED <<now, uploads, nextId, nextFile, up, lst, dl,
                   inserted, attempted, okDeletes>>

\* An fs.unlink completes: the file is removed, or the call fails (ENOENT
\* when the file is not there, which is ignored; any other error is logged)
\* and the directory is as before.
FsUnlinkDone ==
    /\ \E p \in unlinks :
        /\ unlinks' = unlinks \ {p}
        /\ \E err \in BOOLEAN :
            files' = IF err \/ p \notin files THEN files ELSE files \ {p}
    /\ event' = NoEvent
    /\ UNCHANGED <<now, uploads, nextId, nextFile, up, del, sweep, lst, dl,
                   inserted, attempted, okDeletes>>

(* ----------------------------------------------------- POST /api/upload  *)

\* The row the handler builds.
NewRow(id, file, path, text, expiry, username) ==
    [id |-> id,
     type |-> IF file THEN "file" ELSE "text",
     content |-> IF file THEN path ELSE text,
     expiry |-> ExpiryTime(now, expiry),
     created_at |-> now,
     filename |-> IF file THEN OriginalName ELSE Null,
     username |-> UploaderName(username)]

\* upload.single('file') stores the file under a fresh name, then
\* authenticateParams, then the handler up to stmt.run.
UploadWith(expiries, creds, maxFiles, usernames) ==
    /\ up.pc = "idle"
    /\ InFlight < MaxInFlight
    /\ \E file \in BOOLEAN, text \in TextInputs, expiry \in expiries, cred \in creds,
          username \in usernames :
        LET path == Path(nextFile + 1)
            id == nextId + 1
            accepted == Authenticated(cred) /\ (file \/ Truthy(text))
        IN  /\ file => nextFile < maxFiles
            /\ accepted => nextId < MaxItems
            /\ nextFile' = IF file THEN nextFile + 1 ELSE nextFile
            /\ nextId' = IF accepted THEN nextId + 1 ELSE nextId
            /\ files' = IF file THEN files \cup {path} ELSE files
            /\ IF ~Authenticated(cred)
               THEN up' = IdleUp /\ event' = Unauthorized("upload", cred)
               ELSE IF ~file /\ ~Truthy(text)
               THEN up' = IdleUp /\ event' = Reply("upload", 400)
               ELSE /\ up' = [pc |-> "run",
                              row |-> NewRow(id, file, path, text, expiry, username),
                              expiry |-> expiry, username |-> username,
                              cred |-> cred]
                    /\ event' = NoEvent
    /\ UNCHANGED <<now, uploads, unlinks, del, sweep, lst, dl,
                   inserted, attempted, okDeletes>>

UploadRequest == UploadWith(FewExpiryInputs, KeyHolders, MaxFiles, FewUsernames)

\* The callback of stmt.run: the INSERT has failed, or the row is in the
\* table and the reply carries its id and expiry.
UploadRun ==
    /\ up.pc = "run"
    /\ \E err \in BOOLEAN :
        IF err
        THEN /\ event' = Reply("upload", 500)
             /\ UNCHANGED <<uploads, inserted>>
        ELSE /\ uploads' = uploads \cup {up.row}
             /\ inserted' = inserted \cup {up.row}
             /\ event' = [Reply("upload", 200) EXCEPT !.id = up.row.id, !.row = up.row,
                                                      !.expiry = up.expiry,
                                                      !.username = up.username]
    /\ up' = IdleUp
    /\ UNCHANGED <<now, files, nextId, nextFile, unlinks, del, sweep, lst, dl,
                   attempted, okDeletes>>

(* ------------------------------------------------ DELETE /api/delete/:id *)

\* The lookup answered from every row ever inserted, removed or not.
GetStale(id) ==
    IF \E r \in inserted : r.id = id
    THEN CHOOSE r \in inserted : r.id = id
    ELSE NoRow

\* SELECT * FROM uploads WHERE id = ?  (db.get: the row, or undefined)
Get(id) ==
    IF \E r \in uploads : r.id = id
    THEN CHOOSE r \in uploads : r.id = id
    ELSE NoRow

\* The rows DELETE FROM uploads WHERE id = ? removes.
RowsWithId(id) == { r \in uploads : r.id = id }

\* Expired with the comparison > in place of <.
ExpiredFlipped(t) == { r \in uploads : r.expiry > t }

\* Expired with the comparison <= in place of <.
ExpiredOrAt(t) == { r \in uploads : r.expiry <= t }

\* The rows with expiry < ?: what the cleanup SELECT finds and what its
\* DELETE removes.
Expired(t) == { r \in uploads : r.expiry < t }

\* A cleanup run is between its SELECT and its DELETE, or before both, and
\* the row of id is one it removes.
SweepPending(id) ==
    \E w \in Sweepers : sweep[w].pc # "idle" /\ Get(id) \in Expired(sweep[w].now)

\* authenticateParams, then the handler up to db.get.
DeleteRequestBy(s, creds) ==
    /\ del[s].pc = "idle"
    /\ \A o \in DelSlots : o < s => del[o].pc # "idle"
    /\ InFlight < MaxInFlight
    /\ \E id \in 1..MaxItems, cred \in creds :
        IF Authenticated(cred)
        THEN /\ del' = [del EXCEPT ![s] = [IdleDel EXCEPT !.pc = "get", !.id = id, !.cred = cred,
                                                          !.race = SweepPending(id)]]
             /\ event' = NoEvent
        ELSE /\ event' = [Unauthorized("delete", cred) EXCEPT !.id = id]
             /\ UNCHANGED del
    /\ UNCHANGED <<now, uploads, files, nextId, nextFile, unlinks, up, sweep, lst, dl,
                   inserted, attempted, okDeletes>>

\* DeleteUnlinks without the fs.unlink call.
DeleteNoUnlinks(row) == {}

\* The fs.unlink calls of the delete handler for the row it found.
DeleteUnlinks(row) == IF row.type = "file" THEN {row.content} ELSE {}

DeleteReply(s, status) ==
    [Reply("delete", status) EXCEPT !.id = del[s].id, !.row = del[s].row,
                                    !.race = del[s].race]

\* The callback of db.get: 500, 404, or fs.unlink for a file row and then
\* db.run of the DELETE.
DeleteGet(s) ==
    /\ del[s].pc = "get"
    /\ \E err \in BOOLEAN :
        LET row == Get(del[s].id) IN
        IF err
        THEN /\ del' = [del EXCEPT ![s] = IdleDel]
             /\ event' = DeleteReply(s, 500)
             /\ UNCHANGED <<unlinks, attempted>>
        ELSE IF row = NoRow
        THEN /\ del' = [del EXCEPT ![s] = IdleDel]
             /\ event' = DeleteReply(s, 404)
             /\ UNCHANGED <<unlinks, attempted>>
        ELSE /\ del' = [del EXCEPT ![s].pc = "run", ![s].row = row]
             /\ event' = NoEvent
             /\ IssueUnlinks(DeleteUnlinks(row))
    /\ UNCHANGED <<now, uploads, files, nextId, nextFile, up, sweep, lst, dl,
                   inserted, okDeletes>>

\* The callback of db.run: 500, or 'Item deleted' whatever this.changes is.
DeleteRun(s) ==
    /\ del[s].pc = "run"
    /\ \E err \in BOOLEAN :
        IF err
        THEN /\ event' = DeleteReply(s, 500)
             /\ UNCHANGED <<uploads, okDeletes>>
        ELSE /\ uploads' = uploads \ RowsWithId(del[s].id)
             /\ okDeletes' = [okDeletes EXCEPT ![del[s].id] = @ + 1]
             /\ event' = [DeleteReply(s, 200) EXCEPT !.gone = RowsWithId(del[s].id)]
    /\ del' = [del EXCEPT ![s] = IdleDel]
    /\ UNCHANGED <<now, files, nextId, nextFile, unlinks, up, sweep, lst, dl,
                   inserted, attempted>>

DeleteRequest(s) == DeleteRequestBy(s, KeyHolders)

(* -------------------------------------------------------- performCleanup *)

\* row.content of the rows with row.type === 'file'.
FilePaths(rows) == { r.content : r \in { x \in rows : x.type = "file" } }

\* The hourly cron job: performCleanup up to db.all.
CronTick ==
    /\ sweep["cron"].pc = "idle"
    /\ InFlight < MaxInFlight
    /\ sweep' = [sweep EXCEPT !["cron"] = [IdleSweep EXCEPT !.pc = "all", !.now = now]]
    /\ event' = NoEvent
    /\ UNCHANGED <<now, uploads, files, nextId, nextFile, unlinks, up, del, lst, dl,
                   inserted, attempted, okDeletes>>

\* DELETE /api/cleanup: authenticateParams, performCleanup up to db.all, and
\* the reply 'Cleanup started'.
CleanupRequestBy(creds) ==
    /\ sweep["api"].pc = "idle"
    /\ InFlight < MaxInFlight
    /\ \E cred \in creds :
        IF Authenticated(cred)
        THEN /\ sweep' = [sweep EXCEPT !["api"] = [IdleSweep EXCEPT !.pc = "all", !.now = now,
                                                                     !.cred = cred]]
             /\ event' = Reply("cleanup", 200)
        ELSE /\ event' = Unauthorized("cleanup", cred)
             /\ UNCHANGED sweep
    /\ UNCHANGED <<now, uploads, files, nextId, nextFile, unlinks, up, del, lst, dl,
                   inserted, attempted, okDeletes>>

CleanupRequest == CleanupRequestBy(KeyHolders)

SweepEnd(w, log, n) ==
    [NoEvent EXCEPT !.op = "sweep", !.now = sweep[w].now, !.log = log, !.n = n]

\* The callback of db.all: an error or no row ends the run; otherwise
\* fs.unlink for every file row found, then db.run of the DELETE.
SweepAll(w) ==
    /\ sweep[w].pc = "all"
    /\ \E err \in BOOLEAN :
        LET rows == Expired(sweep[w].now) IN
        IF err
        THEN /\ sweep' = [sweep EXCEPT ![w] = IdleSweep]
             /\ event' = SweepEnd(w, "select-error", 0)
             /\ UNCHANGED <<unlinks, attempted>>
        ELSE IF rows = {}
        THEN /\ sweep' = [sweep EXCEPT ![w] = IdleSweep]
             /\ event' = SweepEnd(w, "nothing", 0)
             /\ UNCHANGED <<unlinks, attempted>>
        ELSE /\ sweep' = [sweep EXCEPT ![w].pc = "run"]
             /\ event' = NoEvent
             /\ IssueUnlinks(FilePaths(rows))
    /\ UNCHANGED <<now, uploads, files, nextId, nextFile, up, del, lst, dl,
                   inserted, okDeletes>>

\* Every row of the table counted as removed.
ChangesOfTable(gone) == Cardinality(uploads)

\* this.changes of the DELETE: the rows it removed.
Changes(gone) == Cardinality(gone)

\* The callback of db.run: the error is logged, or the rows are gone and
\* this.changes is logged.
SweepRun(w) ==
    /\ sweep[w].pc = "run"
    /\ \E err \in BOOLEAN :
        LET gone == Expired(sweep[w].now) IN
        IF err
        THEN /\ event' = SweepEnd(w, "delete-error", 0)
             /\ UNCHANGED uploads
        ELSE /\ uploads' = uploads \ gone
             /\ event' = [SweepEnd(w, "complete", Changes(gone)) EXCEPT !.gone = gone]
    /\ sweep' = [sweep EXCEPT ![w] = IdleSweep]
    /\ UNCHANGED <<now, files, nextId, nextFile, unlinks, up, del, lst, dl,
                   inserted, attempted, okDeletes>>

(* --------------------------------------------------------- GET /api/list *)

\* A row read with its expiry and username not yet written.
ListedPartial(r) ==
    [id |-> r.id, type |-> r.type, created_at |-> r.created_at, expiry |-> 0,
     filename |-> r.filename, username |-> <<>>]

\* SELECT id, type, created_at, expiry, ... of one row.
Listed(r) ==
    [id |-> r.id, type |-> r.type, created_at |-> r.created_at, expiry |-> r.expiry,
     filename |-> r.filename, username |-> r.username]

\* Live with the comparison >= in place of >.
LiveOrAt(t) == { r \in uploads : r.expiry >= t }

\* WHERE expiry > ?
Live(t) == { r \in uploads : r.expiry > t }

\* ORDER BY created_at DESC: every ordering of the rows that is descending
\* in created_at (rows created in the same millisecond come in any order).
OrderByCreatedDesc(rows) ==
    { q \in [1..Cardinality(rows) -> rows] :
        /\ \A i, j \in DOMAIN q : i # j => q[i] # q[j]
        /\ \A i, j \in DOMAIN q : i < j => q[i].created_at >= q[j].created_at }

\* authenticateParams, then the handler up to db.all.
ListRequestBy(creds) ==
    /\ lst.pc = "idle"
    /\ InFlight < MaxInFlight
    /\ \E cred \in creds :
        IF Authenticated(cred)
        THEN /\ lst' = [pc |-> "all", now |-> now, after |-> { r.id : r \in inserted },
                         cred |-> cred]
             /\ event' = NoEvent
        ELSE /\ event' = Unauthorized("list", cred)
             /\ UNCHANGED lst
    /\ UNCHANGED <<now, uploads, files, nextId, nextFile, unlinks, up, del, sweep, dl,
                   inserted, attempted, okDeletes>>

ListRequest == ListRequestBy(KeyHolders)

\* The callback of db.all: 500, or the rows as JSON.
ListAll ==
    /\ lst.pc = "all"
    /\ \E err \in BOOLEAN :
        IF err
        THEN event' = [Reply("list", 500) EXCEPT !.now = lst.now, !.after = lst.after]
        ELSE \E q \in OrderByCreatedDesc({ Listed(r) : r \in Live(lst.now) }) :
                event' = [Reply("list", 200) EXCEPT !.now = lst.now, !.after = lst.after,
                                                    !.rows = q]
    /\ lst' = IdleList
    /\ UNCHANGED <<now, uploads, files, nextId, nextFile, unlinks, up, del, sweep, dl,
                   inserted, attempted, okDeletes>>

(* ------------------------------------------------- GET /api/download/:id *)

\* DownloadExpired with the comparison turned round.
DownloadExpiredFlipped(row, t) == row.expiry > t

\* The expiry test of the download handler: 410 iff this holds.
DownloadExpired(row, t) == row.expiry < t

\* The handler up to db.get (the endpoint is public).
DownloadRequest ==
    /\ dl.pc = "idle"
    /\ InFlight < MaxInFlight
    /\ \E id \in 1..MaxItems :
        dl' = [pc |-> "get", id |-> id, now |-> now]
    /\ event' = NoEvent
    /\ UNCHANGED <<now, uploads, files, nextId, nextFile, unlinks, up, del, sweep, lst,
                   inserted, attempted, okDeletes>>

\* The status the callback of db.get replies: 500, 404, 410, or 200 with the
\* payload: the text, or the file res.download sends (404 from the file
\* sender when the file is gone).
DownloadStatus(err, row, t) ==
    IF err THEN 500
    ELSE IF row = NoRow THEN 404
    ELSE IF DownloadExpired(row, t) THEN 410
    ELSE IF row.type = "file" /\ row.content \notin files THEN 404
    ELSE 200

DownloadGet ==
    /\ dl.pc = "get"
    /\ \E err \in BOOLEAN :
        event' = [Reply("download", DownloadStatus(err, Get(dl.id), dl.now))
                    EXCEPT !.id = dl.id, !.now = dl.now,
                           !.row = IF err THEN NoRow ELSE Get(dl.id)]
    /\ dl' = IdleDl
    /\ UNCHANGED <<now, uploads, files, nextId, nextFile, unlinks, up, del, sweep, lst,
                   inserted, attempted, okDeletes>>

(* ------------------------------------------------------------------ spec *)

Next ==
    \/ Tick
    \/ FsUnlinkDone
    \/ UploadRequest
    \/ UploadRun
    \/ \E s \in DelSlots : DeleteRequest(s)
    \/ \E s \in DelSlots : DeleteGet(s)
    \/ \E s \in DelSlots : DeleteRun(s)
    \/ CronTick
    \/ CleanupRequest
    \/ \E w \in Sweepers : SweepAll(w)
    \/ \E w \in Sweepers : SweepRun(w)
    \/ ListRequest
    \/ ListAll
    \/ DownloadRequest
    \/ DownloadGet

Spec == Init /\ [][Next]_vars

\* The upload handler alone, over every expiry field.
UploadAny == UploadWith(ExpiryInputs, Creds, MaxFiles, FewUsernames)

NextUpload ==
    \/ Tick
    \/ UploadAny
    \/ UploadRun

SpecUpload == Init /\ [][NextUpload]_vars

\* The requests of every client, with or without the key, one at a time.
NextAuth ==
    /\ \/ UploadWith(FewExpiryInputs, Creds, MaxFiles, FewUsernames)
       \/ UploadRun
       \/ \E s \in DelSlots : DeleteRequestBy(s, Creds)
       \/ \E s \in DelSlots : DeleteGet(s)
       \/ \E s \in DelSlots : DeleteRun(s)
       \/ CleanupRequestBy(Creds)
       \/ \E w \in Sweepers : SweepAll(w)
       \/ \E w \in Sweepers : SweepRun(w)
       \/ ListRequestBy(Creds)
       \/ ListAll
       \/ FsUnlinkDone
       \/ Tick
    /\ InFlight' <= 1

SpecAuth == Init /\ [][NextAuth]_vars

\* List requests with every combination of the three channels, among the
\* other requests of clients with and without the key, one at a time, on a
\* clipboard that sees one item.
NextKeys ==
    /\ \/ UploadWith(FewExpiryInputs, Creds, MaxFiles, FewUsernames)
       \/ UploadRun
       \/ DeleteRequestBy(1, Creds)
       \/ DeleteGet(1)
       \/ DeleteRun(1)
       \/ CleanupRequestBy(Creds)
       \/ SweepAll("api")
       \/ SweepRun("api")
       \/ ListRequestBy(AllCreds)
       \/ ListAll
       \/ FsUnlinkDone
       \/ Tick
    /\ InFlight' <= 1
    /\ nextId' <= 1

SpecKeys == Init /\ [][NextKeys]_vars

\* Uploads, deletes and cleanup runs alone, with more files.
UploadBlob == UploadWith(FewExpiryInputs, KeyHolders, MaxBlobs, FewUsernames)

NextBlob ==
    \/ Tick
    \/ FsUnlinkDone
    \/ UploadBlob
    \/ UploadRun
    \/ \E s \in DelSlots : DeleteRequest(s)
    \/ \E s \in DelSlots : DeleteGet(s)
    \/ \E s \in DelSlots : DeleteRun(s)
    \/ CronTick
    \/ CleanupRequest
    \/ \E w \in Sweepers : SweepAll(w)
    \/ \E w \in Sweepers : SweepRun(w)

SpecBlob == Init /\ [][NextBlob]_vars

\* The last instant of the clock.
Horizon == MaxMinutes * MsPerMinute + MaxSkew

\* The uploads whose row expires before the last instant of the clock.
UploadInTime == (now + MinExpiry * MsPerMinute < Horizon) /\ UploadRequest

\* A callback whose database call has succeeded.
SweepAllOk(w) == SweepAll(w) /\ event'.log # "select-error"
SweepRunOk(w) == SweepRun(w) /\ event'.log = "complete"

\* Uploads, one delete request at a time and the cron job.
NextLive ==
    \/ Tick
    \/ FsUnlinkDone
    \/ UploadInTime
    \/ UploadRun
    \/ DeleteRequest(1)
    \/ DeleteGet(1)
    \/ DeleteRun(1)
    \/ CronTick
    \/ SweepAll("cron")
    \/ SweepRun("cron")

\* Time advances, the cron job keeps firing, every callback is eventually
\* called, and the database calls of the cron job's runs do not fail for
\* ever.
FairLive ==
    /\ WF_vars(Tick)
    /\ SF_vars(CronTick)
    /\ WF_vars(UploadRun)
    /\ WF_vars(DeleteGet(1)) /\ WF_vars(DeleteRun(1))
    /\ WF_vars(SweepAll("cron")) /\ WF_vars(SweepRun("cron"))
    /\ SF_vars(SweepAllOk("cron"))
    /\ SF_vars(SweepRunOk("cron"))

SpecLive == Init /\ [][NextLive]_vars /\ FairLive

\* The upload handler alone, over every username field.
UploadNamed == UploadWith(FewExpiryInputs, KeyHolders, MaxFiles, Usernames)

NextNamed ==
    \/ Tick
    \/ UploadNamed
    \/ UploadRun

SpecNamed == Init /\ [][NextNamed]_vars

\* The runs in which requests and cleanup runs never overlap: each one ends
\* before the next begins.
NextSeq == Next /\ InFlight' <= 1

SpecSeq == Init /\ [][NextSeq]_vars


(* ---------------------------------------------------------------- claims *)

\* The rows of a list reply.
Got(ev) == { ev.rows[i] : i \in DOMAIN ev.rows }

\* clamp(t) = min(max(t, 1), 10080)
Clamp(t) == IF t < 1 THEN 1 ELSE IF t > 10080 THEN 10080 ELSE t

\* C1: the rows of a list reply made with query time now are exactly the
\* rows that are in the table when it is read and have expiry > now; no row
\* with expiry <= now is in it.
Thm_C1 ==
    (event.op = "list" /\ event.status = 200) =>
        (/\ Got(event) = { Listed(r) : r \in { x \in uploads : x.expiry > event.now } }
         /\ \A g \in Got(event) : ~(g.expiry <= event.now))

\* C1 happens: a list reply with a row in it, made while the table holds a
\* row whose expiry is the query time, which the reply leaves out.
Wit_C1 ==
    /\ event.op = "list" /\ event.status = 200
    /\ Got(event) # {}
    /\ \E r \in uploads : r.expiry = event.now /\ Listed(r) \notin Got(event)

\* C2: for every numeric expiry field t of an upload, t = 0, negative t and
\* t > 10080 included, the row stored has
\* expiry = created_at + clamp(t) * 60000.
CE_C2 ==
    (event.op = "upload" /\ event.status = 200 /\ ~ParseInt(event.expiry).nan) =>
        (/\ event.row \in uploads
         /\ event.row.expiry
              = event.row.created_at + Clamp(ParseInt(event.expiry).val) * 60000)

\* C3: of the delete requests for one id, at most one is answered
\* 'Item deleted' (two concurrent ones: one 'Item deleted', one 404).
CE_C3 == \A id \in 1..MaxItems : okDeletes[id] <= 1

\* C4: when a delete or a cleanup run removes a file row from the table,
\* fs.unlink has been called on the row's file at or before that step.
CE_C4 == FilePaths(event.gone) \subseteq attempted

\* C5: when a cleanup run that nothing overlaps has ended without a database
\* error, no row with expiry <= its now is left in the table, and a second
\* run with the same now finds nothing to remove.
CE_C5 ==
    (event.op = "sweep" /\ event.log \in {"complete", "nothing"}) =>
        (/\ \A r \in uploads : ~(r.expiry <= event.now)
         /\ Expired(event.now) = {})

\* C6: a delete request made while a cleanup run is about to remove its row
\* is not answered 404 when the cleanup run removed the row first.
CE_C6 ==
    (event.op = "delete" /\ event.race /\ okDeletes[event.id] = 0) =>
        event.status # 404

\* C7: a download made at time now whose lookup succeeds (no database error,
\* and the file of a file row is on disk) replies the payload iff the row
\* exists and expiry > now, 410 if the row exists and expiry <= now, 404 if
\* there is no row; and its expiry test on the row agrees with the one of
\* the list.
CE_C7 ==
    ( /\ event.op = "download"
      /\ event.status # 500
      /\ (event.row.type = "file" => event.row.content \in files) ) =>
        ( /\ (event.status = 200) <=> (event.row # NoRow /\ event.row.expiry > event.now)
          /\ (event.row # NoRow /\ event.row.expiry <= event.now) => (event.status = 410)
          /\ (event.row = NoRow) => (event.status = 404)
          /\ (event.row # NoRow) =>
                (DownloadExpired(event.row, event.now) <=> (event.row \notin Live(event.now))) )

\* The rows an upload has inserted and no delete request has removed or is
\* about to remove.
NeverDeleted ==
    { r \in inserted : okDeletes[r.id] = 0 /\ \A s \in DelSlots : del[s].id # r.id }

\* C8 as stated: every row a cleanup run removes has expiry <= the time of
\* the removal, and a row that no client deletes is in every list reply with
\* created_at <= now < expiry whose request was made after the upload's reply.
CE_C8 ==
    /\ (event.op = "sweep") => (\A r \in event.gone : r.expiry <= now)
    /\ (event.op = "list" /\ event.status = 200) =>
        (\A r \in NeverDeleted :
            (r.id \in event.after /\ r.created_at <= event.now /\ event.now < r.expiry)
                => (Listed(r) \in Got(event)))

\* C8 as amended: the same, for the list replies whose read of the table
\* happens no later than the row's expiry.
Thm_C8 ==
    /\ (event.op = "sweep") => (\A r \in event.gone : r.expiry <= now)
    /\ (event.op = "list" /\ event.status = 200) =>
        (\A r \in NeverDeleted :
            (r.id \in event.after /\ r.created_at <= event.now /\ event.now < r.expiry
                /\ now <= r.expiry)
                => (Listed(r) \in Got(event)))

\* C8 happens: while a cleanup run is in flight, a list reply whose request
\* was made after a row's upload and whose read is at the row's expiry, with
\* the row in it.
Wit_C8 ==
    /\ event.op = "list" /\ event.status = 200
    /\ \E w \in Sweepers : sweep[w].pc # "idle"
    /\ \E r \in NeverDeleted :
        /\ r.id \in event.after /\ event.now < r.expiry /\ now = r.expiry
        /\ Listed(r) \in Got(event)

\* The download replies C9 is about: no database error, made after the
\* expiry of a row that was inserted and that no client deletes.
AfterExpiryOf(r) ==
    /\ event.op = "download" /\ event.status # 500
    /\ event.id = r.id /\ event.now > r.expiry

\* C9 as stated: such a download is answered 410, never 404.
CE_C9 == \A r \in NeverDeleted : AfterExpiryOf(r) => (event.status = 410)

\* C9 as amended: such a download is answered 410 while the row is in the
\* table, and 404 once a cleanup run has removed it.
Thm_C9 ==
    \A r \in NeverDeleted :
        AfterExpiryOf(r) => (event.status = IF r \in uploads THEN 410 ELSE 404)

\* C9 happens: a download after the expiry of a row a cleanup run has removed.
Wit_C9 == \E r \in NeverDeleted : AfterExpiryOf(r) /\ r \notin uploads

\* A delete request whose lookup runs after 'Item deleted' was replied for
\* its id ends with that lookup, answered 404 (500 on a database error), and
\* calls no fs.unlink.
SecondDeleteStep ==
    \A s \in DelSlots :
        (del[s].pc = "get" /\ okDeletes[del[s].id] > 0 /\ del'[s] # del[s]) =>
            (/\ del'[s].pc = "idle"
             /\ event'.status \in {404, 500}
             /\ attempted' = attempted /\ unlinks' = unlinks)

\* C10 as stated: once 'Item deleted' is replied for a file row, the file is
\* not on disk; and a later delete of the id is answered 404 without fs.unlink.
CE_C10 ==
    [][/\ (event'.op = "delete" /\ event'.status = 200 /\ event'.row.type = "file")
            => (event'.row.content \notin files')
       /\ SecondDeleteStep]_vars

\* C10 as amended: once 'Item deleted' is replied for a file row, fs.unlink
\* has been called on the file, which is off the disk unless that call is
\* still in flight or has failed; and a later delete of the id is answered
\* 404 (500 on a database error) without fs.unlink.
Thm_C10 ==
    [][/\ (event'.op = "delete" /\ event'.status = 200 /\ event'.row.type = "file")
            => (event'.row.content \in attempted')
       /\ SecondDeleteStep]_vars

\* C10 happens: a delete of a file row answered 404 after 'Item deleted' was
\* replied for the id and fs.unlink was called on its file.
Wit_C10 ==
    /\ event.op = "delete" /\ event.status = 404
    /\ okDeletes[event.id] > 0
    /\ \E r \in inserted : r.id = event.id /\ r.type = "file" /\ r.content \in attempted

\* The logs of a cleanup run whose SELECT or DELETE has failed.
SweepErrors == {"select-error", "delete-error"}

\* C11: a failed INSERT is not answered as a success (a 200 upload reply
\* has its row in the table), a failed DELETE of a delete request is not
\* answered as a success (after 'Item deleted' the id has no row), and the
\* run of a cleanup request, which was answered 'Cleanup started', does not
\* end in a failed SELECT or DELETE.
CE_C11 ==
    [][/\ (event'.op = "upload" /\ event'.status = 200) => (event'.row \in uploads')
       /\ (event'.op = "delete" /\ event'.status = 200)
            => (~\E r \in uploads' : r.id = event'.id)
       /\ (sweep["api"].pc # "idle" /\ sweep'["api"].pc = "idle")
            => (event'.log \notin SweepErrors)]_vars

\* C12: the completion of an fs.unlink, failed or not, leaves every delete
\* request, every cleanup run and the table as they are; a delete request
\* whose DELETE does not fail removes the row and replies 'Item deleted'; a
\* cleanup run calls fs.unlink on the file of every file row it selected,
\* and when its DELETE does not fail no row it selected is left.
Thm_C12 ==
    [][/\ (unlinks' \subseteq unlinks /\ unlinks' # unlinks)
            => (del' = del /\ sweep' = sweep /\ uploads' = uploads)
       /\ \A s \in DelSlots :
            (del[s].pc = "run" /\ del'[s].pc = "idle" /\ event'.status # 500)
                => (event'.status = 200 /\ ~\E r \in uploads' : r.id = del[s].id)
       /\ \A w \in Sweepers :
            (sweep[w].pc = "all" /\ sweep'[w].pc = "run")
                => (\A r \in uploads :
                        (r.expiry < sweep[w].now /\ r.type = "file")
                            => (r.content \in attempted'))
       /\ \A w \in Sweepers :
            (sweep[w].pc = "run" /\ sweep'[w].pc = "idle" /\ event'.log # "delete-error")
                => (\A r \in uploads' : ~(r.expiry < sweep[w].now))]_vars

\* C12 happens: a cleanup run has removed two file rows; the fs.unlink of
\* one has completed with an error, its file being still on disk, and the
\* file of the other is gone.
Wit_C12 ==
    /\ event.op = "sweep" /\ event.log = "complete"
    /\ \E r1, r2 \in event.gone :
        /\ r1.type = "file" /\ r2.type = "file"
        /\ r1.content \in attempted /\ r1.content \notin unlinks /\ r1.content \in files
        /\ r2.content \notin files

\* C13: the count a cleanup run reports is the number of rows its DELETE
\* removed from the table in that step, so that no row is counted by two
\* runs and the counts of overlapping runs add up to the rows removed; a
\* run whose DELETE does not fail ends with "complete", whatever another
\* run has removed meanwhile, and a failed DELETE removes nothing; a run
\* that finds nothing expired changes neither the table nor uploads/ and
\* calls no fs.unlink.
Thm_C13 ==
    [][\A w \in Sweepers :
        /\ (sweep[w].pc = "run" /\ sweep'[w].pc = "idle") =>
              /\ event'.n = Cardinality(uploads \ uploads')
              /\ uploads' \subseteq uploads
              /\ event'.log \in {"complete", "delete-error"}
              /\ (event'.log = "delete-error") => (uploads' = uploads)
        /\ (sweep[w].pc = "all" /\ sweep'[w].pc = "idle" /\ event'.log = "nothing") =>
              /\ uploads' = uploads /\ files' = files
              /\ unlinks' = unlinks /\ attempted' = attempted]_vars

\* C13 happens: with no delete request ever made, a cleanup run that had
\* found expired rows ends with "complete" and a count of 0, another run
\* having removed them between its SELECT and its DELETE.
Wit_C13 ==
    /\ event.op = "sweep" /\ event.log = "complete" /\ event.n = 0
    /\ \A id \in 1..MaxItems : okDeletes[id] = 0
    /\ \A s \in DelSlots : del[s].pc = "idle"
    /\ inserted # {} /\ uploads = {}

\* The table holds a row with this id.
HasRow(id) == \E r \in uploads : r.id = id

\* C14: when time advances, the cron job keeps firing and storage calls
\* complete, every row that is inserted is eventually removed from the table.
Thm_C14 == \A id \in 1..MaxItems : HasRow(id) ~> ~HasRow(id)

\* C14 happens: a cleanup run removes an expired file row whose file is
\* already off the disk.
Wit_C14 ==
    /\ event.op = "sweep" /\ event.log = "complete"
    /\ \E r \in event.gone : r.type = "file" /\ r.content \notin files

\* C15: a delete request whose lookup finds no row for its id (and does not
\* fail) ends there, answered 404; it calls no fs.unlink and leaves the
\* table and uploads/ as they are.
Thm_C15 ==
    [][\A s \in DelSlots :
        (del[s].pc = "get" /\ del'[s] # del[s] /\ ~HasRow(del[s].id) /\ event'.status # 500)
            => (/\ del'[s].pc = "idle"
                /\ event'.op = "delete" /\ event'.status = 404
                /\ uploads' = uploads /\ files' = files
                /\ unlinks' = unlinks /\ attempted' = attempted)]_vars

\* C15 happens: a delete of an id that never had a row is answered 404
\* while the table holds a file row whose file is on disk.
Wit_C15 ==
    /\ event.op = "delete" /\ event.status = 404
    /\ \A r \in inserted : r.id # event.id
    /\ \E r \in uploads : r.type = "file" /\ r.content \in files

\* A row that carries a payload: a file, or a text that is not empty.
HasPayload(r) == r.type = "file" \/ (r.content # Undefined /\ r.content # <<>>)

\* C16: an upload with neither text nor file is answered 400 before any row
\* is written: no row without a payload is in the table or about to be
\* inserted, and the step that replies 400 leaves the table, and so the
\* rows a list returns, as they are and starts no INSERT.
Thm_C16 ==
    [][/\ \A r \in uploads' : HasPayload(r)
       /\ (up'.pc = "run") => HasPayload(up'.row)
       /\ (event'.op = "upload" /\ event'.status = 400)
            => (/\ uploads' = uploads
                /\ up' = up /\ up.pc = "idle"
                /\ nextId' = nextId
                /\ Cardinality(Live(now)') = Cardinality(Live(now)))]_vars

\* C16 happens: an upload is answered 400 while the table holds a live row.
Wit_C16 ==
    /\ event.op = "upload" /\ event.status = 400
    /\ Live(now) # {}

\* C17: every row in the table has
\* created_at + 60000 <= expiry <= created_at + 10080 * 60000,
\* whatever expiry field the upload carried.
Thm_C17 ==
    \A r \in uploads :
        /\ r.expiry > r.created_at
        /\ r.created_at + 60000 <= r.expiry
        /\ r.expiry <= r.created_at + 10080 * 60000

\* C17 happens: an upload with expiry "-5" has replied, its row at the lower
\* limit, while the table holds a row at the upper limit.
Wit_C17 ==
    /\ event.op = "upload" /\ event.status = 200
    /\ event.expiry = <<"-", "5">>
    /\ event.row \in uploads
    /\ event.row.expiry = event.row.created_at + 60000
    /\ \E r \in uploads : r.expiry = r.created_at + 10080 * 60000

\* The first 50 characters of a label, the label itself if it has at most 50.
First50(label) == IF Len(label) <= 50 THEN label ELSE SubSeq(label, 1, 50)

\* C18 as stated: the username stored for an upload is the first 50
\* characters of the username supplied, "web client" when none is supplied;
\* every row in the table has a username of at most 50 characters.
CE_C18 ==
    /\ (event.op = "upload" /\ event.status = 200) =>
          (event.row.username
              = (IF event.username = Undefined THEN WebClient ELSE First50(event.username)))
    /\ \A r \in uploads : Len(r.username) <= 50

\* C18 as amended: the same, with "web client" stored also when the
\* username supplied is the empty string.
Thm_C18 ==
    /\ (event.op = "upload" /\ event.status = 200) =>
          (event.row.username
              = (IF event.username \in {Undefined, <<>>}
                 THEN WebClient ELSE First50(event.username)))
    /\ \A r \in uploads : Len(r.username) <= 50

\* C18 happens: an upload with a username of 80 characters has replied, and
\* its row holds the first 50 of them.
Wit_C18 ==
    /\ event.op = "upload" /\ event.status = 200
    /\ event.username # Undefined /\ Len(event.username) = 80
    /\ event.row \in uploads
    /\ event.row.username = SubSeq(event.username, 1, 50)

\* An entry of a list reply that carries the values of an inserted row.
FullyFormed(g) ==
    \E r \in inserted :
        /\ g.id = r.id /\ g.type = r.type
        /\ g.created_at = r.created_at /\ g.expiry = r.expiry
        /\ g.filename = r.filename /\ g.username = r.username

\* C19: every entry of a list reply carries the id, type, created_at,
\* expiry, filename and username of a row whose INSERT has completed, so a
\* list concurrent with an upload has the new row whole or not at all; and
\* when an upload replies with an id, the row of that id is in the table.
Thm_C19 ==
    /\ (event.op = "list" /\ event.status = 200) =>
          /\ \A g \in Got(event) : FullyFormed(g)
          /\ (up.pc = "run") => (\A g \in Got(event) : g.id # up.row.id)
    /\ (event.op = "upload" /\ event.status = 200) =>
          (event.row \in uploads /\ event.row.id = event.id)

\* C19 happens: a list request made before an upload's INSERT completed
\* replies with the new row whole, while another upload is in flight.
Wit_C19 ==
    /\ event.op = "list" /\ event.status = 200
    /\ \E g \in Got(event) : g.id \notin event.after /\ FullyFormed(g)
    /\ up.pc = "run"

\* C20: a request answered 401 leaves the table and uploads/ as they are;
\* an upload answered 401 has stored no file and starts no INSERT.
CE_C20 ==
    [][(event'.status = 401) =>
          (/\ uploads' = uploads
           /\ files' = files
           /\ up' = up /\ del' = del /\ sweep' = sweep)]_vars

(* ------------------------------------------------------------------ C21  *)

\* The credentials of the requests authenticateParams has let through and
\* that are still in flight.
LetThrough ==
    { r.cred : r \in { q \in {up, del[1], del[2], sweep["api"], lst} : q.pc # "idle" } }

\* Some channel carries the key.
SomeChannelHasKey(cred) == \E i \in 1..3 : cred[i] = <<API_KEY>>

\* A channel carries the key and every channel read before it is absent or
\* empty.
FirstNonEmptyIsKey(cred) ==
    \E i \in 1..3 :
        /\ cred[i] = <<API_KEY>>
        /\ \A j \in 1..(i - 1) : cred[j] \in {Undefined, <<>>}

\* C21: a request is let through if and only if at least one of the
\* x-api-key header, the api_key query parameter and the auth_token cookie
\* carries the key, whatever the other channels carry.
CE_C21 ==
    /\ \A cred \in LetThrough : SomeChannelHasKey(cred)
    /\ event.status = 401 => ~SomeChannelHasKey(event.cred)

\* C21, amended: a request is let through if and only if the first
\* non-empty value among the x-api-key header, the api_key query parameter
\* and the auth_token cookie, in that order, is the key.
Thm_C21 ==
    /\ \A cred \in LetThrough : FirstNonEmptyIsKey(cred)
    /\ event.status = 401 => ~FirstNonEmptyIsKey(event.cred)

\* C21 happens: a list request is let through on its cookie, its header
\* empty and its query parameter absent.
Wit_C21 ==
    /\ lst.pc = "all"
    /\ lst.cred = << <<>>, Undefined, <<API_KEY>> >>

====
